---------------------------- MODULE Spec2Model ----------------------------
(***************************************************************************)
(* CountAndCopy of tensorflow/core/user_ops/scatter_columns_functor.h:     *)
(* scatter the columns of params into a wider output matrix, filling the   *)
(* unmapped columns with a pad element.  One call is modelled as a state   *)
(* machine whose steps are the statements and loop iterations of the       *)
(* function body.  All arrays are 0-based functions, as in the source.     *)
(***************************************************************************)
EXTENDS Integers, FiniteSets, Sequences, TLC

(* ----------------------------- bounds --------------------------------- *)
MaxW == 5          \* largest out_num_cols explored
MaxC == 3          \* largest indices.dimension(0) explored
MaxRows == 2       \* largest params_rows explored
Over == 3          \* index values are drawn up to out_num_cols + Over - 1

(* content of the caller's pre-allocated output buffer at call entry *)
Stale == -1
(* pad_elem[0]: 0 as in the example of lines 43-48, and 11, a value that *)
(* also occurs in params                                                 *)
PadValues == {0, 11}
(* params.  CountAndCopy never inspects an element of params, it only    *)
(* copies them, so two matrices stand for all: the one of the example of *)
(* lines 43-48 continued over rows (11, 12, 13, ... / 21, 22, ...),      *)
(* whose entries are pairwise distinct so that a misplaced copy shows,   *)
(* and one whose entries are all equal.                                  *)
ParamsChoices(nrows, ncols) ==
  { [r \in 0 .. nrows - 1 |-> [k \in 0 .. ncols - 1 |-> 10 * (r + 1) + (k + 1)]],
    [r \in 0 .. nrows - 1 |-> [k \in 0 .. ncols - 1 |-> 11]] }
(* element type T, as far as memory outside a buffer is concerned *)
T == PadValues \cup {Stale}
(* std::vector<IndT> out_indices(out_num_cols, -1): '-1' marks padding *)
Padding == -1

VARIABLES
  params,            \* const ConstMatrix& params      (params_rows x params_cols)
  indices,           \* const ConstFlat& indices
  out_num_cols,      \* const IndT& out_num_cols
  pad_elem,          \* pad_elem[0]
  params_rows,       \* const int64& params_rows
  output,            \* Matrix& output                 (params_rows x out_num_cols)
  pc,                \* position in the function body
  status,            \* the returned Status, [kind |-> "none"] while running
  out_indices,       \* std::vector<IndT> out_indices
  i,                 \* loop variable of the arrange loop
  cons_pad_cols,     \* std::vector<int> cons_pad_cols
  max_cons_pad_cols, \* int max_cons_pad_cols
  c,                 \* loop variable of the grouping loop
  pad_elem_vec,      \* gtl::InlinedVector<T, 4> pad_elem_vec
  row, col,          \* loop variables of the copy loops
  writes,            \* history: how many times each output cell was stored to
  pad_reads,         \* history: how many times pad_elem[0] was loaded
  fault              \* history: some access fell outside its buffer

vars == <<params, indices, out_num_cols, pad_elem, params_rows, output, pc,
          status, out_indices, i, cons_pad_cols, max_cons_pad_cols, c,
          pad_elem_vec, row, col, writes, pad_reads, fault>>

inputs == <<params, indices, out_num_cols, pad_elem, params_rows>>

(* --------------------------- helpers ---------------------------------- *)
\* indices.dimension(0)
indices_size == Cardinality(DOMAIN indices)

\* a vector of n copies of v, as built by vector(n, v)
Fill(n, v) == [k \in 0 .. n - 1 |-> v]

\* unordered_set<IndT> unique_ind(&indices(0), &indices(indices_size)); .size()
UniqueCountNoDedup(ind) == Cardinality(DOMAIN ind)
UniqueCount(ind) == Cardinality({ind[k] : k \in DOMAIN ind})

\* static_cast<UIndex>(a) < static_cast<UIndex>(b) on two's-complement values
\* of one width: a negative value converts to one above every non-negative one
UnsignedLess(a, b) == IF (a < 0) = (b < 0) THEN a < b ELSE b < 0

\* FastBoundsCheck(index, limit): index, converted to unsigned, is below limit
FastBoundsCheck(index, limit) == UnsignedLess(index, limit)

\* errors::InvalidArgument("Indices cannot contain duplicates.", ...)
DuplicateErrorSwapped(ind) ==
  [kind |-> "Duplicate", total |-> UniqueCount(ind), unique |-> Cardinality(DOMAIN ind)]
DuplicateError(ind) ==
  [kind |-> "Duplicate", total |-> Cardinality(DOMAIN ind), unique |-> UniqueCount(ind)]

\* errors::InvalidArgument("Indices(", i, "): ", indices(i), " is not in range ...")
RangeErrorOffByOne(ind, k, limit) ==
  [kind |-> "OutOfRange", position |-> k + 1, value |-> ind[k], bound |-> limit]
RangeError(ind, k, limit) ==
  [kind |-> "OutOfRange", position |-> k, value |-> ind[k], bound |-> limit]

OK == [kind |-> "OK"]
Running == [kind |-> "none"]

(* ----------------------------- Init ----------------------------------- *)
Init ==
  /\ out_num_cols \in 0 .. MaxW
  /\ params_rows \in 0 .. MaxRows
  /\ \E n \in 0 .. MaxC :
       /\ indices \in [0 .. n - 1 -> (-1) .. (out_num_cols + Over - 1)]
       /\ params \in ParamsChoices(params_rows, n)
  /\ pad_elem \in PadValues
  /\ output = [r \in 0 .. params_rows - 1 |-> Fill(out_num_cols, Stale)]
  /\ writes = [r \in 0 .. params_rows - 1 |-> Fill(out_num_cols, 0)]
  /\ pc = "check"
  /\ status = Running
  /\ out_indices = Fill(0, Padding)
  /\ cons_pad_cols = Fill(0, 0)
  /\ pad_elem_vec = Fill(0, Stale)
  /\ max_cons_pad_cols = 0
  /\ i = 0 /\ c = 0 /\ row = 0 /\ col = 0
  /\ pad_reads = 0
  /\ fault = FALSE

(* ------------------- lines 30-40: duplicate check --------------------- *)
\* lines 33-38: the set is smaller than the list
DuplicateFail ==
  /\ pc = "check"
  /\ UniqueCount(indices) # indices_size
  /\ status' = DuplicateError(indices)
  /\ pc' = "done"
  /\ UNCHANGED <<inputs, output, out_indices, i, cons_pad_cols,
                 max_cons_pad_cols, c, pad_elem_vec, row, col, writes,
                 pad_reads, fault>>

\* lines 33, 40: the check passes and out_indices is allocated
DuplicatePassZeroInit ==
  /\ pc = "check"
  /\ UniqueCount(indices) = indices_size
  /\ out_indices' = Fill(out_num_cols, 0)
  /\ i' = 0
  /\ pc' = "arrange"
  /\ UNCHANGED <<inputs, output, status, cons_pad_cols, max_cons_pad_cols, c,
                 pad_elem_vec, row, col, writes, pad_reads, fault>>

DuplicatePassPrefill ==
  /\ pc = "check"
  /\ UniqueCount(indices) = indices_size
  /\ out_indices' = Fill(out_num_cols, Padding)
  /\ i' = 0
  /\ pc' = "arrange"
  /\ output' = [r \in DOMAIN output |-> Fill(out_num_cols, pad_elem)]
  /\ writes' = [r \in DOMAIN writes |-> Fill(out_num_cols, 1)]
  /\ UNCHANGED <<inputs, status, cons_pad_cols, max_cons_pad_cols, c,
                 pad_elem_vec, row, col, pad_reads, fault>>

DuplicatePass ==
  /\ pc = "check"
  /\ UniqueCount(indices) = indices_size
  /\ out_indices' = Fill(out_num_cols, Padding)
  /\ i' = 0
  /\ pc' = "arrange"
  /\ UNCHANGED <<inputs, output, status, cons_pad_cols, max_cons_pad_cols, c,
                 pad_elem_vec, row, col, writes, pad_reads, fault>>

(* ------------------- lines 49-58: arrange loop ------------------------ *)
RangeFail ==
  /\ pc = "arrange"
  /\ i < indices_size
  /\ ~FastBoundsCheck(indices[i], out_num_cols)
  /\ status' = RangeError(indices, i, out_num_cols)
  /\ pc' = "done"
  /\ UNCHANGED <<inputs, output, out_indices, i, cons_pad_cols,
                 max_cons_pad_cols, c, pad_elem_vec, row, col, writes,
                 pad_reads, fault>>

\* out_indices[indices(i)] = i
StoreInverseSwapped(oi, ind, k) == [oi EXCEPT ![k] = ind[k]]
StoreInverse(oi, ind, k) == [oi EXCEPT ![ind[k]] = k]

ArrangeStep ==
  /\ pc = "arrange"
  /\ i < indices_size
  /\ FastBoundsCheck(indices[i], out_num_cols)
  /\ out_indices' = StoreInverse(out_indices, indices, i)
  /\ i' = i + 1
  /\ UNCHANGED <<inputs, output, pc, status, cons_pad_cols, max_cons_pad_cols,
                 c, pad_elem_vec, row, col, writes, pad_reads, fault>>

ArrangeDone ==
  /\ pc = "arrange"
  /\ i >= indices_size
  /\ cons_pad_cols' = Fill(out_num_cols, 0)
  /\ max_cons_pad_cols' = 0
  /\ c' = 0
  /\ pc' = "group"
  /\ UNCHANGED <<inputs, output, status, out_indices, i, pad_elem_vec, row,
                 col, writes, pad_reads, fault>>

(* ------------------- lines 68-93: grouping loop ----------------------- *)
\* pad_cols = 0; while(out_indices[c + pad_cols] < 0)
\*                 { pad_cols++; if(c + pad_cols >= out_num_cols) break; }
RECURSIVE ScanRun(_, _, _, _)
ScanRun(oi, c0, pad_cols, limit) ==
  IF oi[c0 + pad_cols] < 0
    THEN IF c0 + pad_cols + 1 >= limit
           THEN pad_cols + 1
           ELSE ScanRun(oi, c0, pad_cols + 1, limit)
    ELSE pad_cols

\* while(pad_cols > 0) { cons_pad_cols[c++] = pad_cols--; }
AssignRunNoDecrement(cons, c0, pad_cols) ==
  [d \in DOMAIN cons |->
     IF c0 <= d /\ d < c0 + pad_cols THEN pad_cols ELSE cons[d]]
AssignRun(cons, c0, pad_cols) ==
  [d \in DOMAIN cons |->
     IF c0 <= d /\ d < c0 + pad_cols THEN pad_cols - (d - c0) ELSE cons[d]]

\* if(pad_cols > max_cons_pad_cols) max_cons_pad_cols = pad_cols;
TrackMaxFirstRun(max, pad_cols) == IF max = 0 THEN pad_cols ELSE max
TrackMax(max, pad_cols) == IF pad_cols > max THEN pad_cols ELSE max

\* one iteration of for(int c = 0; c < out_num_cols; c++): the body moves c
\* past the run it assigned and the for-header then adds one more
GroupStep ==
  /\ pc = "group"
  /\ c < out_num_cols
  /\ LET pad_cols == ScanRun(out_indices, c, 0, out_num_cols) IN
       /\ max_cons_pad_cols' = TrackMax(max_cons_pad_cols, pad_cols)
       /\ cons_pad_cols' = AssignRun(cons_pad_cols, c, pad_cols)
       /\ c' = (c + pad_cols) + 1
  /\ UNCHANGED <<inputs, output, pc, status, out_indices, i, pad_elem_vec,
                 row, col, writes, pad_reads, fault>>

\* size argument of pad_elem_vec(max_cons_pad_cols, pad_elem[0])
PadBufferSizeAtLeastOne(max) == IF max = 0 THEN 1 ELSE max
PadBufferSize(max) == max

\* line 96: the fill constructor copies pad_elem[0] once per element
GroupDone ==
  /\ pc = "group"
  /\ c >= out_num_cols
  /\ pad_elem_vec' = Fill(PadBufferSize(max_cons_pad_cols), pad_elem)
  /\ pad_reads' = pad_reads + PadBufferSize(max_cons_pad_cols)
  /\ row' = 0
  /\ col' = 0
  /\ pc' = "copy"
  /\ UNCHANGED <<inputs, output, status, out_indices, i, cons_pad_cols,
                 max_cons_pad_cols, c, writes, fault>>

(* ------------------- lines 99-130: row copy loops --------------------- *)
\* memcpy(&output(r0, c0), src, n * sizeof(T)) on the row-major output buffer:
\* element k of src lands k cells after (r0, c0)
MemcpyToOutput(out, r0, c0, src, n) ==
  [r \in DOMAIN out |->
     [d \in DOMAIN out[r] |->
        LET off == (r - r0) * out_num_cols + (d - c0) IN
          IF 0 <= off /\ off < n THEN src[off] ELSE out[r][d]]]

\* the cells that memcpy stores to, counted
CountStores(w, r0, c0, n) ==
  [r \in DOMAIN w |->
     [d \in DOMAIN w[r] |->
        LET off == (r - r0) * out_num_cols + (d - c0) IN
          IF 0 <= off /\ off < n THEN w[r][d] + 1 ELSE w[r][d]]]

\* the store runs past the end of the output buffer
StoreOverrun(r0, c0, n) ==
  r0 * out_num_cols + c0 + n > params_rows * out_num_cols

\* what memcpy can load from &params(r, j): params has indices_size columns
LoadParams(r, j) ==
  IF j \in DOMAIN params[r] THEN {Fill(1, params[r][j])} ELSE [0 .. 0 -> T]

\* what memcpy can load from &pad_elem_vec[0], n elements: elements past
\* the end of the vector are whatever the memory holds
LoadPad(vec, n) ==
  IF n <= Cardinality(DOMAIN vec)
    THEN {[k \in 0 .. n - 1 |-> vec[k]]}
    ELSE {g \in [0 .. n - 1 -> T] : \A k \in DOMAIN vec : g[k] = vec[k]}

\* lines 117-122 (the prefetches of lines 104-115 only form addresses and
\* read out_indices[col + 1] with col + 1 < out_num_cols; they store nothing)
CopyElem ==
  /\ pc = "copy"
  /\ row < params_rows
  /\ col < out_num_cols
  /\ out_indices[col] >= 0
  /\ \E src \in LoadParams(row, out_indices[col]) :
       output' = MemcpyToOutput(output, row, col, src, 1)
  /\ writes' = CountStores(writes, row, col, 1)
  /\ fault' = (fault \/ out_indices[col] \notin DOMAIN params[row])
  /\ col' = col + 1
  /\ UNCHANGED <<inputs, pc, status, out_indices, i, cons_pad_cols,
                 max_cons_pad_cols, c, pad_elem_vec, row, pad_reads>>

\* col += cons_pad_cols[col]
PadAdvanceByOne(col0, n) == col0 + 1
PadAdvance(col0, n) == col0 + n

\* lines 123-128
CopyPad ==
  /\ pc = "copy"
  /\ row < params_rows
  /\ col < out_num_cols
  /\ out_indices[col] < 0
  /\ LET n == cons_pad_cols[col] IN
       /\ \E src \in LoadPad(pad_elem_vec, n) :
            output' = MemcpyToOutput(output, row, col, src, n)
       /\ writes' = CountStores(writes, row, col, n)
       /\ fault' = (fault \/ n > Cardinality(DOMAIN pad_elem_vec)
                          \/ StoreOverrun(row, col, n))
       /\ col' = PadAdvance(col, n)
  /\ UNCHANGED <<inputs, pc, status, out_indices, i, cons_pad_cols,
                 max_cons_pad_cols, c, pad_elem_vec, row, pad_reads>>

\* the inner loop ends (col >= out_num_cols); row++ and the next int col = 0
NextRow ==
  /\ pc = "copy"
  /\ row < params_rows
  /\ col >= out_num_cols
  /\ row' = row + 1
  /\ col' = 0
  /\ UNCHANGED <<inputs, output, pc, status, out_indices, i, cons_pad_cols,
                 max_cons_pad_cols, c, pad_elem_vec, writes, pad_reads, fault>>

\* line 132: return Status::OK()
ReturnOK ==
  /\ pc = "copy"
  /\ row >= params_rows
  /\ status' = OK
  /\ pc' = "done"
  /\ UNCHANGED <<inputs, output, out_indices, i, cons_pad_cols,
                 max_cons_pad_cols, c, pad_elem_vec, row, col, writes,
                 pad_reads, fault>>

Next ==
  \/ DuplicateFail \/ DuplicatePass
  \/ RangeFail \/ ArrangeStep \/ ArrangeDone
  \/ GroupStep \/ GroupDone
  \/ CopyElem \/ CopyPad \/ NextRow \/ ReturnOK

Spec == Init /\ [][Next]_vars

(* ===================== properties of CountAndCopy ===================== *)
\* vocabulary of the properties, stated on the inputs only
Cols == 0 .. out_num_cols - 1
Rows == 0 .. params_rows - 1
InRange(v) == 0 <= v /\ v < out_num_cols
HasDuplicate ==
  \E j, k \in DOMAIN indices : j # k /\ indices[j] = indices[k]
NumDistinct == Cardinality({indices[k] : k \in DOMAIN indices})
SomeOutOfRange == \E k \in DOMAIN indices : ~InRange(indices[k])
\* smallest position whose value is out of range (when there is one)
FirstOutOfRange ==
  CHOOSE k \in DOMAIN indices :
    /\ ~InRange(indices[k])
    /\ \A j \in DOMAIN indices : j < k => InRange(indices[j])
ValidInput == ~HasDuplicate /\ ~SomeOutOfRange
IsMapped(d) == \E k \in DOMAIN indices : indices[k] = d
SourceOf(d) == CHOOSE k \in DOMAIN indices : indices[k] = d
Returned == pc = "done"
ReturnedOK == pc = "done" /\ status.kind = "OK"
Failed == pc = "done" /\ status.kind \in {"Duplicate", "OutOfRange"}
Built == pc \in {"group", "copy"} \/ ReturnedOK
Compressed == pc = "copy" \/ ReturnedOK
\* number of consecutive padding columns starting at d
RunFrom(d) ==
  CHOOSE k \in 0 .. out_num_cols - d :
    /\ \A j \in d .. d + k - 1 : out_indices[j] = -1
    /\ d + k = out_num_cols \/ out_indices[d + k] # -1
LongestRun ==
  CHOOSE m \in 0 .. out_num_cols :
    /\ \A d \in Cols : RunFrom(d) <= m
    /\ m = 0 \/ \E d \in Cols : RunFrom(d) = m

\* C1: for every valid input (indices pairwise distinct, each in [0, W)) the
\* call returns OK and every output cell (r, c) holds params[r][i] when
\* indices[i] = c for some i, and the pad value otherwise.
MappingCorrect ==
  (Returned /\ ValidInput) =>
     /\ status = OK
     /\ \A r \in Rows : \A d \in Cols :
          output[r][d] = IF IsMapped(d) THEN params[r][SourceOf(d)]
                                        ELSE pad_elem

MappingCorrectWitness ==
  /\ ReturnedOK /\ ValidInput
  /\ params_rows = 2 /\ out_num_cols = 4 /\ indices_size = 2
  /\ indices[0] = 3 /\ indices[1] = 1
  /\ params[0][0] # params[0][1]
  /\ output[1] = (0 :> pad_elem @@ 1 :> 22 @@ 2 :> pad_elem @@ 3 :> 21)

\* C2: a call that returns a failure has stored to no output cell, so output
\* is as it was at call entry; the first store to output happens only after
\* the duplicate check and the range check of all indices have passed.
FailFast ==
  /\ Failed =>
       /\ output = [r \in Rows |-> Fill(out_num_cols, Stale)]
       /\ \A r \in Rows : \A d \in Cols : writes[r][d] = 0
  /\ (\E r \in Rows : \E d \in Cols : writes[r][d] > 0 \/ output[r][d] # Stale) =>
       /\ pc \in {"copy", "done"}
       /\ ~HasDuplicate /\ ~SomeOutOfRange
       /\ i = indices_size

FailFastWitness ==
  /\ Failed /\ status.kind = "OutOfRange"
  /\ i = 2 /\ params_rows = 2 /\ out_num_cols = 3
  /\ out_indices[indices[0]] = 0

\* C3: when indices holds two or more equal values the call returns the
\* duplicate failure reporting total = C and unique = the number of distinct
\* values; when the indices are pairwise distinct no duplicate failure is
\* returned.
DuplicateDetection ==
  Returned =>
     /\ HasDuplicate =>
          /\ status.kind = "Duplicate"
          /\ status.total = indices_size
          /\ status.unique = NumDistinct
     /\ ~HasDuplicate => status.kind # "Duplicate"

DuplicateDetectionWitness ==
  /\ Returned /\ status.kind = "Duplicate"
  /\ indices_size = 2 /\ indices[0] = 1 /\ indices[1] = 1
  /\ status.total = 2 /\ status.unique = 1

ExactlyOnce ==
  /\ \A r \in Rows : \A d \in Cols : writes[r][d] <= 1
  /\ ReturnedOK => \A r \in Rows : \A d \in Cols : writes[r][d] = 1

ExactlyOnceWitness ==
  /\ ReturnedOK
  /\ params_rows = 2 /\ out_num_cols = 4 /\ indices_size = 1
  /\ indices[0] = 1
  /\ cons_pad_cols[2] = 2

\* C6: when W = C and indices is a permutation of [0, C) the call succeeds
\* with output[r][indices[i]] = params[r][i] for all r, i, and the pad value
\* is never loaded: the pad buffer is empty, so the output is a function of
\* params and indices alone, the same for every pad value.
PurePermutation ==
  (Returned /\ out_num_cols = indices_size
            /\ {indices[k] : k \in DOMAIN indices} = Cols) =>
     /\ status = OK
     /\ \A r \in Rows : \A k \in DOMAIN indices :
          output[r][indices[k]] = params[r][k]
     /\ pad_reads = 0
     /\ DOMAIN pad_elem_vec = {}

PurePermutationWitness ==
  /\ ReturnedOK
  /\ out_num_cols = 3 /\ indices_size = 3 /\ params_rows = 2
  /\ indices[0] = 2 /\ indices[1] = 0 /\ indices[2] = 1
  /\ \A r \in Rows : \A d \in Cols : output[r][d] # pad_elem

\* C7: once validation has succeeded out_indices has length W,
\* out_indices[indices[i]] = i for every i, every other entry is -1, and so
\* exactly C entries are non-padding, one per source column.
InverseMap ==
  Built =>
     /\ DOMAIN out_indices = Cols
     /\ \A k \in DOMAIN indices : out_indices[indices[k]] = k
     /\ \A d \in Cols : ~IsMapped(d) => out_indices[d] = -1
     /\ Cardinality({d \in Cols : out_indices[d] # -1}) = indices_size
     /\ {out_indices[d] : d \in {e \in Cols : out_indices[e] # -1}}
          = DOMAIN indices

InverseMapWitness ==
  /\ pc = "group" /\ c = 0
  /\ out_num_cols = 4 /\ indices_size = 3
  /\ indices[0] = 3 /\ indices[1] = 0 /\ indices[2] = 2

\* C8: after the grouping loop cons_pad_cols[d] is, for every column d, the
\* number of consecutive padding columns starting at d, which is 0 exactly
\* when d is mapped; while the loop runs this already holds of every column
\* before c, so no padding column is skipped.
RunLengths ==
  /\ Compressed =>
       \A d \in Cols :
         /\ cons_pad_cols[d] = RunFrom(d)
         /\ cons_pad_cols[d] = 0 <=> IsMapped(d)
  /\ pc = "group" =>
       \A d \in Cols : d < c => cons_pad_cols[d] = RunFrom(d)

RunLengthsWitness ==
  /\ pc = "copy" /\ row = 0 /\ col = 0
  /\ out_num_cols = 4 /\ indices_size = 1 /\ indices[0] = 2
  /\ cons_pad_cols[0] = 2 /\ cons_pad_cols[1] = 1 /\ cons_pad_cols[3] = 1

\* C9: whenever the row copy loop is about to take the padding branch at
\* column col, n = cons_pad_cols[col] satisfies 1 <= n <= max_cons_pad_cols,
\* the size of the pad buffer and the longest padding run, and col + n <= W;
\* so the walk of a row ends with col = W and no access leaves its buffer.
PadWriteBounds ==
  /\ (pc = "copy" /\ row < params_rows /\ col < out_num_cols
                  /\ out_indices[col] < 0) =>
       /\ 1 <= cons_pad_cols[col]
       /\ cons_pad_cols[col] <= max_cons_pad_cols
       /\ col + cons_pad_cols[col] <= out_num_cols
  /\ Compressed =>
       /\ Cardinality(DOMAIN pad_elem_vec) = max_cons_pad_cols
       /\ max_cons_pad_cols = LongestRun
  /\ pc = "copy" => col <= out_num_cols
  /\ ~fault

PadWriteBoundsWitness ==
  /\ pc = "copy" /\ row = 1 /\ col = 2
  /\ out_num_cols = 4 /\ out_indices[0] < 0 /\ out_indices[1] >= 0
  /\ out_indices[col] < 0 /\ cons_pad_cols[col] = 2
  /\ max_cons_pad_cols = 2

\* C10: the duplicate check covers the whole list before any range check:
\* when indices holds both a repeated value and an out-of-range value the
\* duplicate failure is returned, and the out-of-range failure is returned
\* only when the indices are pairwise distinct.
ErrorPrecedence ==
  Returned =>
     /\ (HasDuplicate /\ SomeOutOfRange) => status.kind = "Duplicate"
     /\ status.kind = "OutOfRange" => ~HasDuplicate

ErrorPrecedenceWitness ==
  /\ Returned /\ status.kind = "Duplicate"
  /\ indices_size = 2 /\ indices[0] = indices[1]
  /\ indices[0] >= out_num_cols /\ out_num_cols = 3
=============================================================================
